---- MODULE Spec2Model ----
(***************************************************************************)
(* Vault accounting of src/_playground/ethmultivault.py: the five pure     *)
(* functions createAtom, createTriple, depositAtom, depositTriple and      *)
(* redeem, and the ledger bookkeeping the script applies to their results  *)
(* (the "+=" and "totalRemaining..." lines of its data sections).          *)
(*                                                                         *)
(* Amounts are integers.  The script computes with Decimal (28 significant *)
(* digits) and math.floor / math.ceil; on the amounts of this model every  *)
(* product has fewer than 28 digits and every quotient is far from the     *)
(* 28-digit rounding boundary, so math.floor(a * b / c) is the integer     *)
(* floor and math.ceil(a * b / c) the integer ceiling.  TLC integers have  *)
(* 32 bits, so the wei amounts of the fee schedule (1e14 and more) are     *)
(* expressed in a coarser unit; the basis-point rates are the script's.    *)
(***************************************************************************)
EXTENDS Integers, FiniteSets, TLC

\* ------------ Parameters ------------
\* The rates (protocolFee, entryFee, exitFee, atomDepositFractionForTriple,
\* feeDenominator) are the script's.  The amounts are the script's in a unit of
\* 1e13 wei (0.0002 ether = 20), except minShare, 1e5 wei in the script, which
\* is 5: positive, and smaller than every other amount, as in the script.

\* Atom (lines 9-10)
atomCreationProtocolFee == 20
atomWalletInitialDepositAmount == 10

\* Triple (lines 13-15)
tripleCreationProtocolFee == 20
atomDepositFractionOnTripleCreation == 30
atomDepositFractionForTriple == 1500

\* General (lines 18-22)
minShare == 5
protocolFee == 100
entryFee == 500
exitFee == 500
feeDenominator == 10000

\* Costs (lines 25-26)
atomCost == atomCreationProtocolFee + atomWalletInitialDepositAmount + minShare
tripleCost == tripleCreationProtocolFee + atomDepositFractionOnTripleCreation + 2 * minShare

\* ------------ Bounds of the model ------------

\* Number of deposit / redeem operations applied after the creations.
MaxOps == 3

\* What a creation is given on top of its cost.
CreateExtras == {0, 1, 150}

\* Values given to depositAtom and depositTriple.
DepositValues == {0, 1, 50, 450}

\* ------------ Arithmetic ------------

\* math.floor(Decimal(a) / Decimal(b))
floorDiv(a, b) == IF b > 0 THEN a \div b ELSE (-a) \div (-b)

\* math.ceil(Decimal(a) / Decimal(b))
ceilDiv(a, b) == -floorDiv(-a, b)

\* ------------ Functions ------------
\* Each function is the record of its local variables; the script returns
\* some of them as a tuple.

\* Faulty variant of createAtom: the creation fee is not credited to the protocol.
createAtom_feeDropped(value) ==
  LET userDeposit == value - atomCost
      protocolFeeAmount == ceilDiv(userDeposit * protocolFee, feeDenominator)
      userDepositAfterprotocolFee == userDeposit - protocolFeeAmount
      totalShares == userDepositAfterprotocolFee + atomWalletInitialDepositAmount + minShare
  IN  [ userDeposit            |-> userDeposit,
        protocolFeeAmount      |-> protocolFeeAmount,
        userShares             |-> userDepositAfterprotocolFee,
        totalShares            |-> totalShares,
        totalAssets            |-> totalShares,
        atomWalletShares       |-> atomWalletInitialDepositAmount,
        protocolMultisigAssets |-> protocolFeeAmount ]

\* Faulty variant of createAtom: no minShare shares are minted on top of the
\* user's and the wallet's.
createAtom_noDustShares(value) ==
  LET userDeposit == value - atomCost
      protocolFeeAmount == ceilDiv(userDeposit * protocolFee, feeDenominator)
      userDepositAfterprotocolFee == userDeposit - protocolFeeAmount
      totalShares == userDepositAfterprotocolFee + atomWalletInitialDepositAmount
  IN  [ userDeposit            |-> userDeposit,
        protocolFeeAmount      |-> protocolFeeAmount,
        userShares             |-> userDepositAfterprotocolFee,
        totalShares            |-> totalShares,
        totalAssets            |-> totalShares,
        atomWalletShares       |-> atomWalletInitialDepositAmount,
        protocolMultisigAssets |-> atomCreationProtocolFee + protocolFeeAmount ]

createAtom(value) ==
  LET userDeposit == value - atomCost
      protocolFeeAmount == ceilDiv(userDeposit * protocolFee, feeDenominator)
      userDepositAfterprotocolFee == userDeposit - protocolFeeAmount
      totalShares == userDepositAfterprotocolFee + atomWalletInitialDepositAmount + minShare
  IN  [ userDeposit            |-> userDeposit,
        protocolFeeAmount      |-> protocolFeeAmount,
        userShares             |-> userDepositAfterprotocolFee,
        totalShares            |-> totalShares,
        totalAssets            |-> totalShares,
        atomWalletShares       |-> atomWalletInitialDepositAmount,
        protocolMultisigAssets |-> atomCreationProtocolFee + protocolFeeAmount ]

\* Faulty variant of createTriple: the atoms' fraction is not taken out of the
\* positive vault's deposit.
createTriple_fractionKept(value) ==
  LET userDeposit == value - tripleCost
      protocolFeeAmount == ceilDiv(userDeposit * protocolFee, feeDenominator)
      userDepositAfterprotocolFee == userDeposit - protocolFeeAmount
      atomDepositFraction ==
        floorDiv(userDepositAfterprotocolFee * atomDepositFractionForTriple, feeDenominator)
      perAtom == floorDiv(atomDepositFraction, 3)
      userAssetsAfterAtomDepositFraction == userDepositAfterprotocolFee
      entryFeeAmount == floorDiv(perAtom * entryFee, feeDenominator)
      assetsForTheAtom == perAtom - entryFeeAmount
  IN  [ userDeposit              |-> userDeposit,
        protocolFeeAmount        |-> protocolFeeAmount,
        atomDepositFraction      |-> atomDepositFraction,
        perAtom                  |-> perAtom,
        entryFeeAmount           |-> entryFeeAmount,
        userSharesPositiveVault  |-> userAssetsAfterAtomDepositFraction,
        totalSharesPositiveVault |-> userAssetsAfterAtomDepositFraction + minShare,
        totalAssetsPositiveVault |-> userAssetsAfterAtomDepositFraction + minShare,
        totalSharesNegativeVault |-> minShare,
        totalAssetsNegativeVault |-> minShare,
        userSharesAtomVault      |-> assetsForTheAtom,
        totalSharesAtomVault     |-> assetsForTheAtom,
        totalAssetsAtomVault     |-> assetsForTheAtom + entryFeeAmount
                                       + floorDiv(atomDepositFractionOnTripleCreation, 3),
        protocolMultisigAssets   |-> tripleCreationProtocolFee + protocolFeeAmount ]

\* Faulty variant of createTriple: the positive vault's assets leave out the
\* minShare its shares include.
createTriple_assetsWithoutDust(value) ==
  LET userDeposit == value - tripleCost
      protocolFeeAmount == ceilDiv(userDeposit * protocolFee, feeDenominator)
      userDepositAfterprotocolFee == userDeposit - protocolFeeAmount
      atomDepositFraction ==
        floorDiv(userDepositAfterprotocolFee * atomDepositFractionForTriple, feeDenominator)
      perAtom == floorDiv(atomDepositFraction, 3)
      userAssetsAfterAtomDepositFraction == userDepositAfterprotocolFee - atomDepositFraction
      entryFeeAmount == floorDiv(perAtom * entryFee, feeDenominator)
      assetsForTheAtom == perAtom - entryFeeAmount
  IN  [ userDeposit              |-> userDeposit,
        protocolFeeAmount        |-> protocolFeeAmount,
        atomDepositFraction      |-> atomDepositFraction,
        perAtom                  |-> perAtom,
        entryFeeAmount           |-> entryFeeAmount,
        userSharesPositiveVault  |-> userAssetsAfterAtomDepositFraction,
        totalSharesPositiveVault |-> userAssetsAfterAtomDepositFraction + minShare,
        totalAssetsPositiveVault |-> userAssetsAfterAtomDepositFraction,
        totalSharesNegativeVault |-> minShare,
        totalAssetsNegativeVault |-> minShare,
        userSharesAtomVault      |-> assetsForTheAtom,
        totalSharesAtomVault     |-> assetsForTheAtom,
        totalAssetsAtomVault     |-> assetsForTheAtom + entryFeeAmount
                                       + floorDiv(atomDepositFractionOnTripleCreation, 3),
        protocolMultisigAssets   |-> tripleCreationProtocolFee + protocolFeeAmount ]

\* Faulty variant of createTriple: each atom is minted shares for the whole of
\* the atoms' fraction rather than for its third less the entry fee.
createTriple_wholeFractionShares(value) ==
  LET userDeposit == value - tripleCost
      protocolFeeAmount == ceilDiv(userDeposit * protocolFee, feeDenominator)
      userDepositAfterprotocolFee == userDeposit - protocolFeeAmount
      atomDepositFraction ==
        floorDiv(userDepositAfterprotocolFee * atomDepositFractionForTriple, feeDenominator)
      perAtom == floorDiv(atomDepositFraction, 3)
      userAssetsAfterAtomDepositFraction == userDepositAfterprotocolFee - atomDepositFraction
      entryFeeAmount == floorDiv(perAtom * entryFee, feeDenominator)
      assetsForTheAtom == perAtom - entryFeeAmount
  IN  [ userDeposit              |-> userDeposit,
        protocolFeeAmount        |-> protocolFeeAmount,
        atomDepositFraction      |-> atomDepositFraction,
        perAtom                  |-> perAtom,
        entryFeeAmount           |-> entryFeeAmount,
        userSharesPositiveVault  |-> userAssetsAfterAtomDepositFraction,
        totalSharesPositiveVault |-> userAssetsAfterAtomDepositFraction + minShare,
        totalAssetsPositiveVault |-> userAssetsAfterAtomDepositFraction + minShare,
        totalSharesNegativeVault |-> minShare,
        totalAssetsNegativeVault |-> minShare,
        userSharesAtomVault      |-> atomDepositFraction,
        totalSharesAtomVault     |-> atomDepositFraction,
        totalAssetsAtomVault     |-> assetsForTheAtom + entryFeeAmount
                                       + floorDiv(atomDepositFractionOnTripleCreation, 3),
        protocolMultisigAssets   |-> tripleCreationProtocolFee + protocolFeeAmount ]

createTriple(value) ==
  LET userDeposit == value - tripleCost
      protocolFeeAmount == ceilDiv(userDeposit * protocolFee, feeDenominator)
      userDepositAfterprotocolFee == userDeposit - protocolFeeAmount
      atomDepositFraction ==
        floorDiv(userDepositAfterprotocolFee * atomDepositFractionForTriple, feeDenominator)
      perAtom == floorDiv(atomDepositFraction, 3)
      userAssetsAfterAtomDepositFraction == userDepositAfterprotocolFee - atomDepositFraction
      entryFeeAmount == floorDiv(perAtom * entryFee, feeDenominator)
      assetsForTheAtom == perAtom - entryFeeAmount
  IN  [ userDeposit              |-> userDeposit,
        protocolFeeAmount        |-> protocolFeeAmount,
        atomDepositFraction      |-> atomDepositFraction,
        perAtom                  |-> perAtom,
        entryFeeAmount           |-> entryFeeAmount,
        userSharesPositiveVault  |-> userAssetsAfterAtomDepositFraction,
        totalSharesPositiveVault |-> userAssetsAfterAtomDepositFraction + minShare,
        totalAssetsPositiveVault |-> userAssetsAfterAtomDepositFraction + minShare,
        totalSharesNegativeVault |-> minShare,
        totalAssetsNegativeVault |-> minShare,
        userSharesAtomVault      |-> assetsForTheAtom,
        totalSharesAtomVault     |-> assetsForTheAtom,
        totalAssetsAtomVault     |-> assetsForTheAtom + entryFeeAmount
                                       + floorDiv(atomDepositFractionOnTripleCreation, 3),
        protocolMultisigAssets   |-> tripleCreationProtocolFee + protocolFeeAmount ]

\* Faulty variant of depositAtom: shares are minted one for one, as if the price
\* were 1.
depositAtom_oneToOne(value, totalAssets, totalShares) ==
  LET protocolFeeAmount == ceilDiv(value * protocolFee, feeDenominator)
      userDepositAfterprotocolFee == value - protocolFeeAmount
      entryFeeAmount == floorDiv(userDepositAfterprotocolFee * entryFee, feeDenominator)
      assetsForTheAtom == userDepositAfterprotocolFee - entryFeeAmount
      userSharesForTheAtom == assetsForTheAtom
  IN  [ protocolFeeAmount      |-> protocolFeeAmount,
        entryFeeAmount         |-> entryFeeAmount,
        assetsForTheAtom       |-> assetsForTheAtom,
        userSharesForTheAtom   |-> userSharesForTheAtom,
        totalSharesAtomVault   |-> totalShares + userSharesForTheAtom,
        totalAssetsAtomVault   |-> totalAssets + assetsForTheAtom + entryFeeAmount,
        protocolMultisigAssets |-> protocolFeeAmount ]

\* Faulty variant of depositAtom: the entry fee is not added to the vault's assets.
depositAtom_feeLost(value, totalAssets, totalShares) ==
  LET protocolFeeAmount == ceilDiv(value * protocolFee, feeDenominator)
      userDepositAfterprotocolFee == value - protocolFeeAmount
      entryFeeAmount == floorDiv(userDepositAfterprotocolFee * entryFee, feeDenominator)
      assetsForTheAtom == userDepositAfterprotocolFee - entryFeeAmount
      userSharesForTheAtom == floorDiv(assetsForTheAtom * totalShares, totalAssets)
  IN  [ protocolFeeAmount      |-> protocolFeeAmount,
        entryFeeAmount         |-> entryFeeAmount,
        assetsForTheAtom       |-> assetsForTheAtom,
        userSharesForTheAtom   |-> userSharesForTheAtom,
        totalSharesAtomVault   |-> totalShares + userSharesForTheAtom,
        totalAssetsAtomVault   |-> totalAssets + assetsForTheAtom,
        protocolMultisigAssets |-> protocolFeeAmount ]

\* Raises (decimal.DivisionByZero / InvalidOperation) when totalAssets = 0.
depositAtom(value, totalAssets, totalShares) ==
  LET protocolFeeAmount == ceilDiv(value * protocolFee, feeDenominator)
      userDepositAfterprotocolFee == value - protocolFeeAmount
      entryFeeAmount == floorDiv(userDepositAfterprotocolFee * entryFee, feeDenominator)
      assetsForTheAtom == userDepositAfterprotocolFee - entryFeeAmount
      userSharesForTheAtom == floorDiv(assetsForTheAtom * totalShares, totalAssets)
  IN  [ protocolFeeAmount      |-> protocolFeeAmount,
        entryFeeAmount         |-> entryFeeAmount,
        assetsForTheAtom       |-> assetsForTheAtom,
        userSharesForTheAtom   |-> userSharesForTheAtom,
        totalSharesAtomVault   |-> totalShares + userSharesForTheAtom,
        totalAssetsAtomVault   |-> totalAssets + assetsForTheAtom + entryFeeAmount,
        protocolMultisigAssets |-> protocolFeeAmount ]

\* Faulty variant of depositTriple: the atom's entry fee is not added to the
\* atom's assets.
depositTriple_atomFeeLost(value, totalAssets, totalShares, totalAssetsAtom, totalSharesAtom) ==
  LET protocolFeeAmount == ceilDiv(value * protocolFee, feeDenominator)
      userDepositAfterprotocolFee == value - protocolFeeAmount
      atomDepositFraction ==
        floorDiv(userDepositAfterprotocolFee * atomDepositFractionForTriple, feeDenominator)
      userAssetsAfterAtomDepositFraction == userDepositAfterprotocolFee - atomDepositFraction
      entryFeeAmount ==
        IF totalShares = minShare
        THEN 0
        ELSE floorDiv(userAssetsAfterAtomDepositFraction * entryFee, feeDenominator)
      assetsAfterEntryFee == userAssetsAfterAtomDepositFraction - entryFeeAmount
      userSharesAfterEntryFee ==
        IF totalShares = 0
        THEN assetsAfterEntryFee
        ELSE floorDiv(assetsAfterEntryFee * totalShares, totalAssets)
      perAtom == floorDiv(atomDepositFraction, 3)
      entryFeeAmountForAtom ==
        IF totalSharesAtom = minShare
        THEN 0
        ELSE floorDiv(perAtom * entryFee, feeDenominator)
      assetsForTheAtom == perAtom - entryFeeAmountForAtom
      userSharesForTheAtom ==
        IF totalSharesAtom = 0
        THEN assetsForTheAtom
        ELSE floorDiv(assetsForTheAtom * totalSharesAtom, totalAssetsAtom)
  IN  [ protocolFeeAmount        |-> protocolFeeAmount,
        atomDepositFraction      |-> atomDepositFraction,
        entryFeeAmount           |-> entryFeeAmount,
        assetsAfterEntryFee      |-> assetsAfterEntryFee,
        userSharesPositiveVault  |-> userSharesAfterEntryFee,
        totalSharesPositiveVault |-> userSharesAfterEntryFee,
        totalAssetsPositiveVault |-> assetsAfterEntryFee + entryFeeAmount,
        perAtom                  |-> perAtom,
        entryFeeAmountForAtom    |-> entryFeeAmountForAtom,
        userSharesAtomVault      |-> userSharesForTheAtom,
        totalSharesAtomVault     |-> userSharesForTheAtom,
        totalAssetsAtomVault     |-> assetsForTheAtom,
        protocolMultisigAssets   |-> protocolFeeAmount ]

\* Faulty variant of depositTriple: the positive vault's entry fee is charged
\* also when the vault holds exactly minShare shares.
depositTriple_noSkip(value, totalAssets, totalShares, totalAssetsAtom, totalSharesAtom) ==
  LET protocolFeeAmount == ceilDiv(value * protocolFee, feeDenominator)
      userDepositAfterprotocolFee == value - protocolFeeAmount
      atomDepositFraction ==
        floorDiv(userDepositAfterprotocolFee * atomDepositFractionForTriple, feeDenominator)
      userAssetsAfterAtomDepositFraction == userDepositAfterprotocolFee - atomDepositFraction
      entryFeeAmount ==
        IF FALSE
        THEN 0
        ELSE floorDiv(userAssetsAfterAtomDepositFraction * entryFee, feeDenominator)
      assetsAfterEntryFee == userAssetsAfterAtomDepositFraction - entryFeeAmount
      userSharesAfterEntryFee ==
        IF totalShares = 0
        THEN assetsAfterEntryFee
        ELSE floorDiv(assetsAfterEntryFee * totalShares, totalAssets)
      perAtom == floorDiv(atomDepositFraction, 3)
      entryFeeAmountForAtom ==
        IF totalSharesAtom = minShare
        THEN 0
        ELSE floorDiv(perAtom * entryFee, feeDenominator)
      assetsForTheAtom == perAtom - entryFeeAmountForAtom
      userSharesForTheAtom ==
        IF totalSharesAtom = 0
        THEN assetsForTheAtom
        ELSE floorDiv(assetsForTheAtom * totalSharesAtom, totalAssetsAtom)
  IN  [ protocolFeeAmount        |-> protocolFeeAmount,
        atomDepositFraction      |-> atomDepositFraction,
        entryFeeAmount           |-> entryFeeAmount,
        assetsAfterEntryFee      |-> assetsAfterEntryFee,
        userSharesPositiveVault  |-> userSharesAfterEntryFee,
        totalSharesPositiveVault |-> userSharesAfterEntryFee,
        totalAssetsPositiveVault |-> assetsAfterEntryFee + entryFeeAmount,
        perAtom                  |-> perAtom,
        entryFeeAmountForAtom    |-> entryFeeAmountForAtom,
        userSharesAtomVault      |-> userSharesForTheAtom,
        totalSharesAtomVault     |-> userSharesForTheAtom,
        totalAssetsAtomVault     |-> assetsForTheAtom + entryFeeAmountForAtom,
        protocolMultisigAssets   |-> protocolFeeAmount ]

\* Raises when a vault with shares has no assets (division by zero).
depositTriple(value, totalAssets, totalShares, totalAssetsAtom, totalSharesAtom) ==
  LET protocolFeeAmount == ceilDiv(value * protocolFee, feeDenominator)
      userDepositAfterprotocolFee == value - protocolFeeAmount
      atomDepositFraction ==
        floorDiv(userDepositAfterprotocolFee * atomDepositFractionForTriple, feeDenominator)
      userAssetsAfterAtomDepositFraction == userDepositAfterprotocolFee - atomDepositFraction
      entryFeeAmount ==
        IF totalShares = minShare
        THEN 0
        ELSE floorDiv(userAssetsAfterAtomDepositFraction * entryFee, feeDenominator)
      assetsAfterEntryFee == userAssetsAfterAtomDepositFraction - entryFeeAmount
      userSharesAfterEntryFee ==
        IF totalShares = 0
        THEN assetsAfterEntryFee
        ELSE floorDiv(assetsAfterEntryFee * totalShares, totalAssets)
      perAtom == floorDiv(atomDepositFraction, 3)
      entryFeeAmountForAtom ==
        IF totalSharesAtom = minShare
        THEN 0
        ELSE floorDiv(perAtom * entryFee, feeDenominator)
      assetsForTheAtom == perAtom - entryFeeAmountForAtom
      userSharesForTheAtom ==
        IF totalSharesAtom = 0
        THEN assetsForTheAtom
        ELSE floorDiv(assetsForTheAtom * totalSharesAtom, totalAssetsAtom)
  IN  [ protocolFeeAmount        |-> protocolFeeAmount,
        atomDepositFraction      |-> atomDepositFraction,
        entryFeeAmount           |-> entryFeeAmount,
        assetsAfterEntryFee      |-> assetsAfterEntryFee,
        userSharesPositiveVault  |-> userSharesAfterEntryFee,
        totalSharesPositiveVault |-> userSharesAfterEntryFee,
        totalAssetsPositiveVault |-> assetsAfterEntryFee + entryFeeAmount,
        perAtom                  |-> perAtom,
        entryFeeAmountForAtom    |-> entryFeeAmountForAtom,
        userSharesAtomVault      |-> userSharesForTheAtom,
        totalSharesAtomVault     |-> userSharesForTheAtom,
        totalAssetsAtomVault     |-> assetsForTheAtom + entryFeeAmountForAtom,
        protocolMultisigAssets   |-> protocolFeeAmount ]

\* Faulty variants of the exit fee of redeem: rounded down; skipped whenever at
\* least minShare shares are left; skipped whenever at most minShare are left.
redeemExitFee_floor(shares, totalShares, userAssetsAfterprotocolFee) ==
  IF totalShares - shares = minShare
  THEN 0
  ELSE floorDiv(userAssetsAfterprotocolFee * exitFee, feeDenominator)

redeemExitFee_skipAtOrAboveFloor(shares, totalShares, userAssetsAfterprotocolFee) ==
  IF totalShares - shares >= minShare
  THEN 0
  ELSE ceilDiv(userAssetsAfterprotocolFee * exitFee, feeDenominator)

redeemExitFee_skipAtOrBelowFloor(shares, totalShares, userAssetsAfterprotocolFee) ==
  IF totalShares - shares <= minShare
  THEN 0
  ELSE ceilDiv(userAssetsAfterprotocolFee * exitFee, feeDenominator)

\* The exit fee of redeem, lines 164-167.
redeemExitFee(shares, totalShares, userAssetsAfterprotocolFee) ==
  IF totalShares - shares = minShare
  THEN 0
  ELSE ceilDiv(userAssetsAfterprotocolFee * exitFee, feeDenominator)

redeem(shares, totalAssets, totalShares) ==
  LET userAssets ==
        IF totalShares = 0 THEN shares ELSE floorDiv(shares * totalAssets, totalShares)
      protocolFeeAmount == ceilDiv(userAssets * protocolFee, feeDenominator)
      userAssetsAfterprotocolFee == userAssets - protocolFeeAmount
      exitFeeAmount == redeemExitFee(shares, totalShares, userAssetsAfterprotocolFee)
  IN  [ userAssets                 |-> userAssets,
        userAssetsAfterprotocolFee |-> userAssetsAfterprotocolFee,
        userAssetsAfterexitFee     |-> userAssetsAfterprotocolFee - exitFeeAmount,
        protocolFeeAmount          |-> protocolFeeAmount,
        exitFeeAmount              |-> exitFeeAmount ]

\* ------------ Ledger state ------------

VARIABLES
  atom,                   \* the atom vault: userShares, totalShares, totalAssets, atomWalletShares
  triple,                 \* the triple: userShares and the totals of its positive and negative vault
  protocolMultisigAssets, \* what the protocol multisig has been credited
  last,                   \* the last call: its name, arguments, the ledger before it, its result
                          \* (out) and what it raised, and the call before it
  nOps,                   \* deposits and redeems applied so far
  floorKept               \* history: no redeem so far took shares out of a vault's last minShare

vars == <<atom, triple, protocolMultisigAssets, last, nOps, floorKept>>

NoAtom ==
  [created |-> FALSE, userShares |-> 0, totalShares |-> 0, totalAssets |-> 0,
   atomWalletShares |-> 0]

NoTriple ==
  [created |-> FALSE, userShares |-> 0, totalSharesPos |-> 0, totalAssetsPos |-> 0,
   totalSharesNeg |-> 0, totalAssetsNeg |-> 0]

Ledger == [atom |-> atom, triple |-> triple, protocolMultisigAssets |-> protocolMultisigAssets]

\* None of the five functions checks its arguments or raises on the arguments
\* the operations below give it, so every call returns: raised is "none".
Call(op, vault, value, shares, out) ==
  [op |-> op, vault |-> vault, value |-> value, shares |-> shares, pre |-> Ledger,
   out |-> out, raised |-> "none",
   prevOp |-> last.op, prevVault |-> last.vault, prevOut |-> last.out]

Init ==
  /\ atom = NoAtom
  /\ triple = NoTriple
  /\ protocolMultisigAssets = 0
  /\ last = [op |-> "none", vault |-> "none", value |-> 0, shares |-> 0,
             pre |-> [atom |-> NoAtom, triple |-> NoTriple, protocolMultisigAssets |-> 0],
             out |-> [none |-> 0], raised |-> "none",
             prevOp |-> "none", prevVault |-> "none", prevOut |-> [none |-> 0]]
  /\ nOps = 0
  /\ floorKept = TRUE

\* ------------ Operations ------------

\* "Create atom data", lines 187 and 213: the atom starts with createAtom's totals.
CreateAtomWith(value) ==
  LET r == createAtom(value) IN
  /\ ~atom.created
  /\ atom' = [created |-> TRUE, userShares |-> r.userShares, totalShares |-> r.totalShares,
              totalAssets |-> r.totalAssets, atomWalletShares |-> r.atomWalletShares]
  /\ protocolMultisigAssets' = protocolMultisigAssets + r.protocolMultisigAssets
  /\ last' = Call("createAtom", "atom", value, 0, r)
  /\ UNCHANGED <<triple, nOps, floorKept>>

\* "Create triple data", lines 218-235 and 311-317: the triple's vaults start with
\* createTriple's totals and each underlying atom is given the per-atom amounts.
CreateTripleWith(value) ==
  LET r == createTriple(value) IN
  /\ atom.created
  /\ ~triple.created
  /\ triple' = [created |-> TRUE, userShares |-> r.userSharesPositiveVault,
                totalSharesPos |-> r.totalSharesPositiveVault,
                totalAssetsPos |-> r.totalAssetsPositiveVault,
                totalSharesNeg |-> r.totalSharesNegativeVault,
                totalAssetsNeg |-> r.totalAssetsNegativeVault]
  /\ atom' = [atom EXCEPT !.userShares = @ + r.userSharesAtomVault,
                          !.totalShares = @ + r.totalSharesAtomVault,
                          !.totalAssets = @ + r.totalAssetsAtomVault]
  /\ protocolMultisigAssets' = protocolMultisigAssets + r.protocolMultisigAssets
  /\ last' = Call("createTriple", "triple", value, 0, r)
  /\ UNCHANGED <<nOps, floorKept>>

\* "Deposit atom data", lines 272-275.
DepositAtomWith(value) ==
  /\ atom.created
  /\ nOps < MaxOps
  /\ atom.totalAssets # 0
  /\ LET r == depositAtom(value, atom.totalAssets, atom.totalShares) IN
     /\ atom' = [atom EXCEPT !.userShares = @ + r.userSharesForTheAtom,
                             !.totalShares = r.totalSharesAtomVault,
                             !.totalAssets = r.totalAssetsAtomVault]
     /\ protocolMultisigAssets' = protocolMultisigAssets + r.protocolMultisigAssets
     /\ last' = Call("depositAtom", "atom", value, 0, r)
  /\ nOps' = nOps + 1
  /\ UNCHANGED <<triple, floorKept>>

\* "Deposit triple data", lines 321-331.
DepositTripleWith(value) ==
  /\ triple.created
  /\ nOps < MaxOps
  /\ triple.totalSharesPos # 0 => triple.totalAssetsPos # 0
  /\ atom.totalShares # 0 => atom.totalAssets # 0
  /\ LET r == depositTriple(value, triple.totalAssetsPos, triple.totalSharesPos,
                            atom.totalAssets, atom.totalShares) IN
     /\ triple' = [triple EXCEPT !.userShares = @ + r.userSharesPositiveVault,
                                 !.totalAssetsPos = @ + r.totalAssetsPositiveVault,
                                 !.totalSharesPos = @ + r.totalSharesPositiveVault]
     /\ atom' = [atom EXCEPT !.userShares = @ + r.userSharesAtomVault,
                             !.totalShares = @ + r.totalSharesAtomVault,
                             !.totalAssets = @ + r.totalAssetsAtomVault]
     /\ protocolMultisigAssets' = protocolMultisigAssets + r.protocolMultisigAssets
     /\ last' = Call("depositTriple", "triple", value, 0, r)
  /\ nOps' = nOps + 1
  /\ UNCHANGED floorKept

\* Faulty variant of RedeemAtomWith: the vault is debited the assets before fees,
\* so the exit fee leaves the vault with them.
RedeemAtomWith_preFee(shares) ==
  /\ atom.created
  /\ nOps < MaxOps
  /\ LET r == redeem(shares, atom.totalAssets, atom.totalShares) IN
     /\ atom' = [atom EXCEPT !.userShares = @ - shares,
                             !.totalShares = @ - shares,
                             !.totalAssets = @ - r.userAssets - r.protocolFeeAmount]
     /\ protocolMultisigAssets' = protocolMultisigAssets + r.protocolFeeAmount
     /\ last' = Call("redeem", "atom", 0, shares, r)
  /\ floorKept' = (floorKept /\ shares <= atom.totalShares - minShare)
  /\ nOps' = nOps + 1
  /\ UNCHANGED triple

\* "Redeem atom data", lines 389-393.
RedeemAtomWith(shares) ==
  /\ atom.created
  /\ nOps < MaxOps
  /\ LET r == redeem(shares, atom.totalAssets, atom.totalShares) IN
     /\ atom' = [atom EXCEPT !.userShares = @ - shares,
                             !.totalShares = @ - shares,
                             !.totalAssets = @ - r.userAssetsAfterexitFee - r.protocolFeeAmount]
     /\ protocolMultisigAssets' = protocolMultisigAssets + r.protocolFeeAmount
     /\ last' = Call("redeem", "atom", 0, shares, r)
  /\ floorKept' = (floorKept /\ shares <= atom.totalShares - minShare)
  /\ nOps' = nOps + 1
  /\ UNCHANGED triple

\* "Redeem triple data", lines 440-444.
RedeemTripleWith(shares) ==
  /\ triple.created
  /\ nOps < MaxOps
  /\ LET r == redeem(shares, triple.totalAssetsPos, triple.totalSharesPos) IN
     /\ triple' = [triple EXCEPT !.userShares = @ - shares,
                                 !.totalSharesPos = @ - shares,
                                 !.totalAssetsPos = @ - r.userAssetsAfterexitFee - r.protocolFeeAmount]
     /\ protocolMultisigAssets' = protocolMultisigAssets + r.protocolFeeAmount
     /\ last' = Call("redeem", "triple", 0, shares, r)
  /\ floorKept' = (floorKept /\ shares <= triple.totalSharesPos - minShare)
  /\ nOps' = nOps + 1
  /\ UNCHANGED atom

\* ------------ Inputs ------------

JustMintedAtom == IF last.op = "depositAtom" THEN last.out.userSharesForTheAtom ELSE 0

JustMintedTriple == IF last.op = "depositTriple" THEN last.out.userSharesPositiveVault ELSE 0

\* Share amounts a redeem is tried with on a vault of totalShares shares of
\* which users hold userShares: one share, half and all of the users' shares,
\* what the deposit just before minted, all but minShare, and everything.
UserRedeemAmounts(userShares, justMinted) ==
  {1, userShares \div 2, userShares, justMinted}

RedeemAmounts(userShares, totalShares, justMinted) ==
  UserRedeemAmounts(userShares, justMinted) \cup {totalShares - minShare, totalShares}

\* A creation paid at least its cost (the script's values, lines 179-186 and 204-211).
CreateAtom == \E e \in CreateExtras : CreateAtomWith(atomCost + e)

CreateTriple == \E e \in CreateExtras : CreateTripleWith(tripleCost + e)

DepositAtom == \E value \in DepositValues : DepositAtomWith(value)

DepositTriple == \E value \in DepositValues : DepositTripleWith(value)

\* A redeem of shares the users hold, as the script issues it (lines 389 and 440).
RedeemAtom ==
  \E shares \in UserRedeemAmounts(atom.userShares, JustMintedAtom) :
    /\ 0 < shares
    /\ shares <= atom.userShares
    /\ RedeemAtomWith(shares)

RedeemTriple ==
  \E shares \in UserRedeemAmounts(triple.userShares, JustMintedTriple) :
    /\ 0 < shares
    /\ shares <= triple.userShares
    /\ RedeemTripleWith(shares)

Next ==
  \/ CreateAtom
  \/ CreateTriple
  \/ DepositAtom
  \/ DepositTriple
  \/ RedeemAtom
  \/ RedeemTriple

Spec == Init /\ [][Next]_vars

\* A redeem of any amount 0 < shares <= totalShares of the vault.
RedeemAtomAny ==
  \E shares \in RedeemAmounts(atom.userShares, atom.totalShares, JustMintedAtom) :
    /\ 0 < shares
    /\ shares <= atom.totalShares
    /\ RedeemAtomWith(shares)

RedeemTripleAny ==
  \E shares \in RedeemAmounts(triple.userShares, triple.totalSharesPos, JustMintedTriple) :
    /\ 0 < shares
    /\ shares <= triple.totalSharesPos
    /\ RedeemTripleWith(shares)

NextAnyRedeem ==
  \/ CreateAtom
  \/ CreateTriple
  \/ DepositAtom
  \/ DepositTriple
  \/ RedeemAtomAny
  \/ RedeemTripleAny

SpecAnyRedeem == Init /\ [][NextAnyRedeem]_vars

\* The functions called with whatever amount: they take any number.
CreateAtomBelowCost == \E value \in {0, atomCost - 1} : CreateAtomWith(value)

CreateTripleBelowCost == \E value \in {0, tripleCost - 1} : CreateTripleWith(value)

RedeemAtomOutOfRange == \E shares \in {0, atom.totalShares + 1} : RedeemAtomWith(shares)

RedeemTripleOutOfRange == \E shares \in {0, triple.totalSharesPos + 1} : RedeemTripleWith(shares)

NextUnchecked ==
  \/ CreateAtom
  \/ CreateTriple
  \/ DepositAtom
  \/ DepositTriple
  \/ RedeemAtomAny
  \/ RedeemTripleAny
  \/ CreateAtomBelowCost
  \/ CreateTripleBelowCost
  \/ RedeemAtomOutOfRange
  \/ RedeemTripleOutOfRange

SpecUnchecked == Init /\ [][NextUnchecked]_vars

\* ------------ Properties ------------

\* The totals of the vault a call worked on, before the call and now.
PreShares(c) ==
  IF c.vault = "atom" THEN c.pre.atom.totalShares ELSE c.pre.triple.totalSharesPos

PreAssets(c) ==
  IF c.vault = "atom" THEN c.pre.atom.totalAssets ELSE c.pre.triple.totalAssetsPos

NowShares(c) == IF c.vault = "atom" THEN atom.totalShares ELSE triple.totalSharesPos

NowAssets(c) == IF c.vault = "atom" THEN atom.totalAssets ELSE triple.totalAssetsPos

\* Every vault created so far holds at least minShare shares and minShare assets.
DustFloor ==
  /\ atom.created =>
       /\ atom.totalShares >= minShare
       /\ atom.totalAssets >= minShare
  /\ triple.created =>
       /\ triple.totalSharesPos >= minShare
       /\ triple.totalAssetsPos >= minShare
       /\ triple.totalSharesNeg >= minShare
       /\ triple.totalAssetsNeg >= minShare

\* C1 as stated: after any sequence of creations, deposits and redeems with
\* 0 < shares <= totalShares, every vault has totalShares >= minShare and
\* totalAssets >= minShare.  (SpecAnyRedeem issues exactly these operations.)
C1_DustFloorAnyRedeem == DustFloor

\* C1 amended: the dust floor holds after every operation as long as every
\* redeem so far took 0 < shares <= totalShares - minShare.
C1_DustFloorKept == floorKept => DustFloor

\* A redeem has just taken a vault down to exactly minShare shares.
C1_Witness ==
  /\ floorKept
  /\ last.op = "redeem"
  /\ last.shares = PreShares(last) - minShare
  /\ NowShares(last) = minShare
  /\ NowAssets(last) >= minShare

\* What createTriple adds to the vaults it touches, and what it loses in the
\* three-way split of the atoms' shares of the deposit.
TripleAssetsAdded(out) ==
  out.totalAssetsPositiveVault + out.totalAssetsNegativeVault
    + 3 * out.totalAssetsAtomVault + out.protocolMultisigAssets

TripleNet(value) ==
  (value - tripleCost) - (((value - tripleCost) * protocolFee + feeDenominator - 1) \div feeDenominator)

TripleSplitRemainder(value) ==
  (((TripleNet(value) * atomDepositFractionForTriple) \div feeDenominator) % 3)
    + (atomDepositFractionOnTripleCreation % 3)

\* C2 as stated: the value passed to createTriple equals the assets added to
\* the positive vault, the negative vault and the three atoms plus the
\* protocol fee collected.
C2_TripleConservation ==
  last.op = "createTriple" => last.value = TripleAssetsAdded(last.out)

\* C2 amended: the value passed to createTriple equals the assets added to all
\* touched vaults plus the protocol fee collected plus the remainders of the two
\* divisions by three, atomDepositFraction mod 3 and
\* atomDepositFractionOnTripleCreation mod 3, which are credited to nobody.
C2_TripleConservationUpToRemainder ==
  last.op = "createTriple" =>
    /\ last.value = TripleAssetsAdded(last.out) + TripleSplitRemainder(last.value)
    /\ triple.totalAssetsPos = last.out.totalAssetsPositiveVault
    /\ triple.totalAssetsNeg = last.out.totalAssetsNegativeVault
    /\ atom.totalAssets = last.pre.atom.totalAssets + last.out.totalAssetsAtomVault
    /\ protocolMultisigAssets = last.pre.protocolMultisigAssets + last.out.protocolMultisigAssets

\* A triple was created with a deposit whose atom fraction is no multiple of 3.
C2_Witness ==
  /\ last.op = "createTriple"
  /\ last.value > tripleCost
  /\ TripleSplitRemainder(last.value) > 0

\* C3: for every value >= atomCost, createAtom returns totalAssets and
\* protocolFeeCollected with value = totalAssets + protocolFeeCollected.
C3_AtomConservation ==
  (last.op = "createAtom" /\ last.value >= atomCost) =>
    /\ last.value = last.out.totalAssets + last.out.protocolMultisigAssets
    /\ atom.totalAssets = last.out.totalAssets
    /\ protocolMultisigAssets = last.pre.protocolMultisigAssets + last.out.protocolMultisigAssets

\* An atom was created above its cost, with a protocol fee on the excess.
C3_Witness ==
  /\ last.op = "createAtom"
  /\ last.value > atomCost + 1
  /\ last.out.protocolMultisigAssets > atomCreationProtocolFee
  /\ last.out.userShares > 0

\* The redeem just made takes exactly the shares the deposit right before it
\* minted in the same vault: an atom via depositAtom, a positive vault via
\* depositTriple.
RedeemsJustMinted ==
  /\ last.op = "redeem"
  /\ last.shares > 0
  /\ \/ /\ last.vault = "atom"
        /\ last.prevOp = "depositAtom"
        /\ last.shares = last.prevOut.userSharesForTheAtom
     \/ /\ last.vault = "triple"
        /\ last.prevOp = "depositTriple"
        /\ last.shares = last.prevOut.userSharesPositiveVault

\* The assets that deposit converted into shares.
AssetsIn ==
  IF last.prevOp = "depositAtom"
  THEN last.prevOut.assetsForTheAtom
  ELSE last.prevOut.assetsAfterEntryFee

\* The shares of that vault before the deposit.
SharesBeforeDeposit == PreShares(last) - last.shares

\* C4 as stated: on any vault reached by creations, deposits and redeems with
\* 0 < shares <= totalShares, a deposit that converts assetsIn assets into
\* shares, followed at once by the redeem of exactly the shares it minted
\* (shares > 0), pays out userAssetsAfterFees <= assetsIn, with equality only if
\* all fee rates are 0.
C4_RoundTrip ==
  RedeemsJustMinted =>
    /\ last.out.userAssetsAfterexitFee <= AssetsIn
    /\ last.out.userAssetsAfterexitFee = AssetsIn =>
         (protocolFee = 0 /\ entryFee = 0 /\ exitFee = 0)

\* C4 amended: the same, for a vault that held shares before the deposit
\* (totalShares > 0) and, if it is an atom vault, did not hold exactly minShare
\* shares.  (At exactly minShare shares depositAtom charges the entry fee and the
\* redeem of the minted shares skips the exit fee; at 0 shares depositTriple
\* mints one share per asset whatever assets the vault holds.)
C4_RoundTripAboveFloor ==
  ( /\ RedeemsJustMinted
    /\ SharesBeforeDeposit > 0
    /\ last.vault = "atom" => SharesBeforeDeposit # minShare ) =>
    /\ last.out.userAssetsAfterexitFee <= AssetsIn
    /\ last.out.userAssetsAfterexitFee = AssetsIn =>
         (protocolFee = 0 /\ entryFee = 0 /\ exitFee = 0)

\* A deposit with an entry fee into a vault with the wallet's or users' shares
\* in it was redeemed at once and paid out something.
C4_Witness ==
  /\ RedeemsJustMinted
  /\ SharesBeforeDeposit > minShare
  /\ last.prevOut.entryFeeAmount > 0
  /\ last.out.userAssetsAfterexitFee > 0

\* C5 as stated: createAtom with value < atomCost and createTriple with
\* value < tripleCost fail with InsufficientDeposit and change nothing.
C5_BelowCostRejected ==
  ( \/ (last.op = "createAtom" /\ last.value < atomCost)
    \/ (last.op = "createTriple" /\ last.value < tripleCost) ) =>
    /\ last.raised = "InsufficientDeposit"
    /\ Ledger = last.pre

\* C6 as stated: redeem with shares = 0 or shares > totalShares fails with
\* InsufficientShares and changes nothing.
C6_OutOfRangeRejected ==
  (last.op = "redeem" /\ (last.shares = 0 \/ last.shares > PreShares(last))) =>
    /\ last.raised = "InsufficientShares"
    /\ Ledger = last.pre

\* What redeem paid out before the exit fee, from the amounts it returns.
AfterProtocol == last.out.userAssetsAfterexitFee + last.out.exitFeeAmount

ExitFeeCharged == last.op = "redeem" /\ PreShares(last) - last.shares # minShare

\* C7 as stated: whenever redeem charges an exit fee, exitFeeAmount is the
\* floor of afterProtocol * exitFee / feeDenominator.
C7_ExitFeeRoundsDown ==
  ExitFeeCharged =>
    /\ last.out.exitFeeAmount * feeDenominator <= AfterProtocol * exitFee
    /\ (last.out.exitFeeAmount + 1) * feeDenominator > AfterProtocol * exitFee

\* C7 amended: whenever redeem charges an exit fee, exitFeeAmount is the ceiling
\* of afterProtocol * exitFee / feeDenominator, the smallest integer not below it.
C7_ExitFeeRoundsUp ==
  ExitFeeCharged =>
    /\ last.out.exitFeeAmount * feeDenominator >= AfterProtocol * exitFee
    /\ (last.out.exitFeeAmount - 1) * feeDenominator < AfterProtocol * exitFee

\* An exit fee was charged on an amount whose fee is no whole number.
C7_Witness ==
  /\ ExitFeeCharged
  /\ last.shares > 0
  /\ (AfterProtocol * exitFee) % feeDenominator # 0

\* The assets of the shares redeemed, before fees, and less the protocol fee.
RedeemedAssets ==
  IF PreShares(last) = 0
  THEN last.shares
  ELSE (last.shares * PreAssets(last)) \div PreShares(last)

RedeemedAfterProtocol == RedeemedAssets - last.out.protocolFeeAmount

\* C8: redeem sets exitFeeAmount = 0 when totalShares - shares = minShare, and
\* in every other case, a full exit included, charges the exit fee computed on
\* afterProtocol (which is positive whenever afterProtocol is).
C8_ExitFeeSkip ==
  last.op = "redeem" =>
    /\ PreShares(last) - last.shares = minShare => last.out.exitFeeAmount = 0
    /\ PreShares(last) - last.shares # minShare =>
         /\ last.out.exitFeeAmount =
              (RedeemedAfterProtocol * exitFee + feeDenominator - 1) \div feeDenominator
         /\ RedeemedAfterProtocol > 0 => last.out.exitFeeAmount > 0
    /\ last.out.userAssetsAfterexitFee = RedeemedAfterProtocol - last.out.exitFeeAmount

\* A full exit, which leaves 0 shares, paid an exit fee.
C8_Witness ==
  /\ last.op = "redeem"
  /\ last.shares = PreShares(last)
  /\ last.shares > minShare
  /\ last.out.exitFeeAmount > 0

\* C9 as stated: after a redeem the vault's totalShares is down by shares, its
\* totalAssets is down by userAssets + protocolFeeAmount with userAssets the
\* amount before fees, and the protocol is credited protocolFeeAmount.
C9_LedgerDebitsPreFeeAssets ==
  (last.op = "redeem" /\ PreShares(last) > 0) =>
    /\ NowShares(last) = PreShares(last) - last.shares
    /\ NowAssets(last) = PreAssets(last) - (RedeemedAssets + last.out.protocolFeeAmount)
    /\ protocolMultisigAssets = last.pre.protocolMultisigAssets + last.out.protocolFeeAmount

\* C9 amended: after a redeem the vault's totalShares is down by shares, its
\* totalAssets is down by userAssetsAfterFees + protocolFeeAmount, that is by
\* the amount before fees less the exit fee, which stays in the vault, and the
\* protocol is credited protocolFeeAmount.
C9_LedgerDebitsPaidAssets ==
  (last.op = "redeem" /\ PreShares(last) > 0) =>
    /\ NowShares(last) = PreShares(last) - last.shares
    /\ NowAssets(last) =
         PreAssets(last) - (last.out.userAssetsAfterexitFee + last.out.protocolFeeAmount)
    /\ NowAssets(last) = PreAssets(last) - RedeemedAssets + last.out.exitFeeAmount
    /\ protocolMultisigAssets = last.pre.protocolMultisigAssets + last.out.protocolFeeAmount

\* An atom redeem that charged an exit fee.
C9_Witness ==
  /\ last.op = "redeem"
  /\ last.vault = "atom"
  /\ PreShares(last) > 0
  /\ last.out.exitFeeAmount > 0

\* C10: for a vault with totalShares > 0 and totalAssets > 0, a depositAtom with
\* entryFeeAmount > 0 does not lower the price:
\* newTotalAssets * totalShares >= totalAssets * newTotalShares.
C10_PriceMonotonic ==
  ( /\ last.op = "depositAtom"
    /\ PreShares(last) > 0
    /\ PreAssets(last) > 0
    /\ last.out.entryFeeAmount > 0 ) =>
    /\ last.out.totalAssetsAtomVault * PreShares(last)
         >= PreAssets(last) * last.out.totalSharesAtomVault
    /\ atom.totalAssets * PreShares(last) >= PreAssets(last) * atom.totalShares

\* A depositAtom with an entry fee into a vault whose price is above 1.
C10_Witness ==
  /\ last.op = "depositAtom"
  /\ last.out.entryFeeAmount > 0
  /\ PreShares(last) > 0
  /\ PreAssets(last) > PreShares(last)
  /\ last.out.userSharesForTheAtom > 0

\* C11: the atom vault createAtom returns has totalShares = totalAssets, and the
\* positive and the negative vault createTriple returns each have
\* totalShares = totalAssets; the ledger starts the vaults with these totals.
C11_GenesisPriceOne ==
  /\ last.op = "createAtom" =>
       /\ last.out.totalShares = last.out.totalAssets
       /\ atom.totalShares = atom.totalAssets
  /\ last.op = "createTriple" =>
       /\ last.out.totalSharesPositiveVault = last.out.totalAssetsPositiveVault
       /\ last.out.totalSharesNegativeVault = last.out.totalAssetsNegativeVault
       /\ triple.totalSharesPos = triple.totalAssetsPos
       /\ triple.totalSharesNeg = triple.totalAssetsNeg

\* A triple was created above its cost, with user shares in its positive vault.
C11_Witness ==
  /\ last.op = "createTriple"
  /\ last.value > tripleCost
  /\ last.out.userSharesPositiveVault > 0
  /\ triple.totalSharesPos > minShare

\* C12: createAtom called with value = atomCost yields userShares = 0,
\* totalShares = totalAssets = atomWalletInitialDepositAmount + minShare,
\* walletShares = atomWalletInitialDepositAmount and
\* protocolFeeCollected = atomCreationProtocolFee.
C12_AtomAtCost ==
  (last.op = "createAtom" /\ last.value = atomCost) =>
    /\ last.out.userShares = 0
    /\ last.out.totalShares = atomWalletInitialDepositAmount + minShare
    /\ last.out.totalAssets = atomWalletInitialDepositAmount + minShare
    /\ last.out.atomWalletShares = atomWalletInitialDepositAmount
    /\ last.out.protocolMultisigAssets = atomCreationProtocolFee
    /\ atom.userShares = 0
    /\ atom.totalShares = atomWalletInitialDepositAmount + minShare

\* An atom was created for exactly its cost.
C12_Witness ==
  /\ last.op = "createAtom"
  /\ last.value = atomCost
  /\ atom.created
  /\ atom.totalAssets = atomWalletInitialDepositAmount + minShare

\* The fees and the atoms' fraction of a deposit of value, step by step: the
\* protocol fee off the raw value, rounded up; the atoms' fraction of what is
\* left, rounded down; a third of it per atom.
ProtocolFeeOf(value) == (value * protocolFee + feeDenominator - 1) \div feeDenominator

NetOf(value) == value - ProtocolFeeOf(value)

AtomFractionOf(value) == (NetOf(value) * atomDepositFractionForTriple) \div feeDenominator

PerAtomOf(value) == AtomFractionOf(value) \div 3

PositiveEntryFeeOf(value, totalShares) ==
  IF totalShares = minShare
  THEN 0
  ELSE ((NetOf(value) - AtomFractionOf(value)) * entryFee) \div feeDenominator

AtomEntryFeeOf(value, totalSharesAtom) ==
  IF totalSharesAtom = minShare
  THEN 0
  ELSE (PerAtomOf(value) * entryFee) \div feeDenominator

\* C13: depositTriple takes the protocol fee ceil(value * protocolFee /
\* feeDenominator) from the raw value first, carves atomDepositFraction =
\* floor(net * atomDepositFractionForTriple / feeDenominator) out next, and
\* charges the positive leg floor((net - atomDepositFraction) * entryFee /
\* feeDenominator), or 0 if the positive vault holds exactly minShare shares;
\* each atom leg is charged floor(perAtom * entryFee / feeDenominator), or 0 if
\* the atom holds exactly minShare shares.  The shares minted are those of the
\* amounts after these fees.
C13_TripleFeeOrder ==
  last.op = "depositTriple" =>
    LET v  == last.value
        S  == last.pre.triple.totalSharesPos
        A  == last.pre.triple.totalAssetsPos
        Sa == last.pre.atom.totalShares
        Aa == last.pre.atom.totalAssets
    IN  /\ last.out.protocolMultisigAssets = ProtocolFeeOf(v)
        /\ last.out.atomDepositFraction = AtomFractionOf(v)
        /\ last.out.entryFeeAmount = PositiveEntryFeeOf(v, S)
        /\ last.out.entryFeeAmountForAtom = AtomEntryFeeOf(v, Sa)
        /\ last.out.totalAssetsPositiveVault = NetOf(v) - AtomFractionOf(v)
        /\ S # 0 =>
             last.out.userSharesPositiveVault =
               ((NetOf(v) - AtomFractionOf(v) - PositiveEntryFeeOf(v, S)) * S) \div A
        /\ Sa # 0 =>
             last.out.userSharesAtomVault =
               ((PerAtomOf(v) - AtomEntryFeeOf(v, Sa)) * Sa) \div Aa

\* A deposit into a positive vault at exactly minShare shares, large enough for
\* an entry fee: the positive leg's is skipped, the atom leg's is charged.
C13_Witness ==
  /\ last.op = "depositTriple"
  /\ last.pre.triple.totalSharesPos = minShare
  /\ ((NetOf(last.value) - AtomFractionOf(last.value)) * entryFee) \div feeDenominator > 0
  /\ last.out.entryFeeAmount = 0
  /\ last.out.entryFeeAmountForAtom > 0

\* C14: for every value >= 0 and every vault with totalAssets > 0, depositAtom
\* satisfies value = (newTotalAssets - totalAssets) + protocolFeeCollected, so
\* all of the value less the protocol fee stays in the vault, and
\* newTotalShares - totalShares = userShares.
C14_DepositAtomConservation ==
  (last.op = "depositAtom" /\ last.value >= 0 /\ PreAssets(last) > 0) =>
    /\ last.value = (last.out.totalAssetsAtomVault - PreAssets(last))
                      + last.out.protocolMultisigAssets
    /\ last.out.totalAssetsAtomVault - PreAssets(last) = NetOf(last.value)
    /\ last.out.totalSharesAtomVault - PreShares(last) = last.out.userSharesForTheAtom
    /\ atom.totalAssets = last.out.totalAssetsAtomVault
    /\ atom.totalShares = last.out.totalSharesAtomVault
    /\ protocolMultisigAssets =
         last.pre.protocolMultisigAssets + last.out.protocolMultisigAssets

\* A depositAtom that charged an entry fee and minted shares.
C14_Witness ==
  /\ last.op = "depositAtom"
  /\ PreAssets(last) > 0
  /\ last.out.entryFeeAmount > 0
  /\ last.out.userSharesForTheAtom > 0

\* What a depositTriple of value leaves unbooked: the value less what it adds to
\* the positive vault and to the three atoms and less the protocol fee.
TripleDepositLeak ==
  last.value - ( last.out.totalAssetsPositiveVault + 3 * last.out.totalAssetsAtomVault
                   + last.out.protocolMultisigAssets )

\* C15: for every value and vault state, the value passed to depositTriple minus
\* (positive vault's asset increment + 3 * per-atom asset increment +
\* protocolFeeCollected) is atomDepositFraction mod 3, so 0, 1 or 2, and the
\* ledger books nothing but these increments.
C15_TripleDepositLeak ==
  last.op = "depositTriple" =>
    /\ TripleDepositLeak = AtomFractionOf(last.value) % 3
    /\ TripleDepositLeak \in 0..2
    /\ triple.totalAssetsPos =
         last.pre.triple.totalAssetsPos + last.out.totalAssetsPositiveVault
    /\ atom.totalAssets = last.pre.atom.totalAssets + last.out.totalAssetsAtomVault
    /\ protocolMultisigAssets =
         last.pre.protocolMultisigAssets + last.out.protocolMultisigAssets
    /\ triple.totalAssetsNeg = last.pre.triple.totalAssetsNeg

\* A depositTriple whose atoms' fraction is no multiple of 3.
C15_Witness ==
  /\ last.op = "depositTriple"
  /\ AtomFractionOf(last.value) % 3 # 0
  /\ TripleDepositLeak > 0

\* C16: after createAtom and any sequence of depositAtom, createTriple and
\* depositTriple per-atom amounts and redeems of shares users hold, the atom's
\* totalShares is the users' outstanding shares + the wallet's shares +
\* minShare, and the wallet's shares stay atomWalletInitialDepositAmount.
C16_AtomShareAccounting ==
  atom.created =>
    /\ atom.totalShares = atom.userShares + atom.atomWalletShares + minShare
    /\ atom.atomWalletShares = atomWalletInitialDepositAmount
    /\ atom.userShares >= 0

\* An atom that went through a deposit and then a redeem of some, not all, of
\* the users' shares.
C16_Witness ==
  /\ last.op = "redeem"
  /\ last.vault = "atom"
  /\ last.prevOp \in {"depositAtom", "depositTriple"}
  /\ last.shares > 1
  /\ atom.userShares > 0
  /\ atom.totalShares = atom.userShares + atomWalletInitialDepositAmount + minShare

\* C17: in every state reached from createAtom and createTriple by depositAtom,
\* depositTriple, createTriple's per-atom amounts and redeem with the ledger
\* update, every vault has totalAssets >= totalShares.
C17_PriceAtLeastOne ==
  /\ atom.created => atom.totalAssets >= atom.totalShares
  /\ triple.created =>
       /\ triple.totalAssetsPos >= triple.totalSharesPos
       /\ triple.totalAssetsNeg >= triple.totalSharesNeg

\* A redeem out of a vault priced above 1 left it priced above 1.
C17_Witness ==
  /\ last.op = "redeem"
  /\ last.shares > 0
  /\ last.shares < PreShares(last)
  /\ PreAssets(last) > PreShares(last)
  /\ last.out.userAssetsAfterexitFee > 0
  /\ NowAssets(last) > NowShares(last)

\* C18: for a redeem with 0 < shares < totalShares, after the ledger update
\* (totalShares less shares, totalAssets less the assets paid out and the
\* protocol fee) the vault's price totalAssets / totalShares is at least the
\* price before the redeem.
C18_RedeemKeepsPrice ==
  ( /\ last.op = "redeem"
    /\ last.shares > 0
    /\ last.shares < PreShares(last) ) =>
    /\ NowShares(last) = PreShares(last) - last.shares
    /\ NowAssets(last) =
         PreAssets(last) - last.out.userAssetsAfterexitFee - last.out.protocolFeeAmount
    /\ NowAssets(last) * PreShares(last) >= PreAssets(last) * NowShares(last)

\* A redeem that charged an exit fee and so raised the price.
C18_Witness ==
  /\ last.op = "redeem"
  /\ last.shares > 0
  /\ last.shares < PreShares(last)
  /\ last.out.exitFeeAmount > 0
  /\ NowAssets(last) * PreShares(last) > PreAssets(last) * NowShares(last)

\* ------------ A triple created on an atom with deposits ------------

\* What is paid above the cost when the triple is created late: the extras of
\* CreateExtras and one that is large against atomDepositFractionOnTripleCreation,
\* as the script's values of 1 ether and more are (lines 206-209).
TripleExtras == CreateExtras \cup {10000}

CreateTripleOnDeposits == \E e \in TripleExtras : CreateTripleWith(tripleCost + e)

\* createAtom, any number of depositAtom, and createTriple at any point after
\* createAtom, its per-atom amounts added to the atom.
NextTripleOnDeposits ==
  \/ CreateAtom
  \/ DepositAtom
  \/ CreateTripleOnDeposits

SpecTripleOnDeposits == Init /\ [][NextTripleOnDeposits]_vars

\* The atom's price after the operation is at least its price before it.
AtomPriceKept ==
  atom.totalAssets * last.pre.atom.totalShares >= last.pre.atom.totalAssets * atom.totalShares

\* C19 as stated: for an atom reached by createAtom and any number of
\* depositAtom, adding createTriple's per-atom amounts (shares one for one with
\* assetsForTheAtom, assets perAtom + floor(atomDepositFractionOnTripleCreation
\* / 3)) leaves the atom's price at or above its price before.
C19_TripleNeverDilutes ==
  last.op = "createTriple" => AtomPriceKept

\* C19 amended: createTriple's per-atom amounts leave the atom's price at or
\* above its price before when that price is 1 (totalAssets = totalShares, as
\* right after createAtom); on an atom whose price deposits have raised they
\* can lower it, but never below 1.
C19_TripleKeepsPriceOfOne ==
  last.op = "createTriple" =>
    /\ atom.totalShares = last.pre.atom.totalShares + last.out.totalSharesAtomVault
    /\ atom.totalAssets = last.pre.atom.totalAssets + last.out.totalAssetsAtomVault
    /\ last.pre.atom.totalAssets = last.pre.atom.totalShares => AtomPriceKept
    /\ last.pre.atom.totalAssets >= last.pre.atom.totalShares =>
         atom.totalAssets >= atom.totalShares

\* A triple created with a large deposit on an atom still priced 1: the atom's
\* price went up.
C19_Witness ==
  /\ last.op = "createTriple"
  /\ last.pre.atom.totalAssets = last.pre.atom.totalShares
  /\ last.out.entryFeeAmount > 0
  /\ last.out.totalSharesAtomVault > 0
  /\ atom.totalAssets > atom.totalShares

\* C20: on an atom created by createAtom with atomWalletInitialDepositAmount > 0,
\* a redeem of shares users hold never leaves exactly minShare shares, so its
\* exit fee is the fee charged, ceil(afterProtocol * exitFee / feeDenominator);
\* on a triple's positive vault the redeem of all the shares users hold leaves
\* exactly minShare shares and pays exitFeeAmount = 0.
C20_ExitFeeSkipOnlyOnTriple ==
  /\ (last.op = "redeem" /\ last.vault = "atom" /\ last.shares > 0) =>
       /\ atomWalletInitialDepositAmount > 0
       /\ last.shares <= last.pre.atom.userShares
       /\ PreShares(last) - last.shares # minShare
       /\ last.out.exitFeeAmount =
            (RedeemedAfterProtocol * exitFee + feeDenominator - 1) \div feeDenominator
  /\ ( /\ last.op = "redeem"
       /\ last.vault = "triple"
       /\ last.shares > 0
       /\ last.shares = last.pre.triple.userShares ) =>
       /\ NowShares(last) = minShare
       /\ last.out.exitFeeAmount = 0
       /\ last.out.userAssetsAfterexitFee = RedeemedAfterProtocol

\* A redeem on the atom that charged an exit fee, followed by the redeem of all
\* the users' shares of the positive vault, on assets that would bear a fee.
C20_Witness ==
  /\ last.op = "redeem"
  /\ last.vault = "triple"
  /\ last.shares = last.pre.triple.userShares
  /\ RedeemedAfterProtocol * exitFee >= feeDenominator
  /\ last.out.exitFeeAmount = 0
  /\ last.prevOp = "redeem"
  /\ last.prevVault = "atom"
  /\ last.prevOut.exitFeeAmount > 0

====
